---- MODULE Spec2Model ----
(***************************************************************************)
(* A model of py-jfif: the JFIF segment scanner and container (jfif.py),   *)
(* and the Exif/TIFF tag table (exif.py).                                  *)
(*                                                                         *)
(* Bytes are integers 0..255 and a byte string is a sequence of bytes.     *)
(* Python indexes from 0 and TLA+ from 1: At(s, p) is Python's s[p] and    *)
(* PySlice(s, a, b) is Python's s[a:b], with Python's clamping.            *)
(***************************************************************************)
EXTENDS Integers, Sequences, FiniteSets, TLC

VARIABLES
    \* --- scanning a buffer, rebuilding it, scanning the result (jfif.py)
    img,        \* the byte buffer handed to JFIF(data)
    spc,        \* where the caller's script stands
    c1,         \* self._segments of JFIF(img)
    out,        \* c1.getBytes()
    c2,         \* self._segments of JFIF(out)
    \* --- containers and the lists they share or do not share (jfif.py)
    lists,      \* the heap of Python list objects: lists[l] is the content of list l
    containers, \* containers[c] is the list object that container c's _segments names
    callerLists,\* the list objects the caller holds a reference to
    \* --- the Exif tag table (exif.py)
    data,       \* the raw block handed to Exif(data)
    xpc,        \* where the constructor, and then the caller, stands
    offset,     \* the constructor's local variable offset
    entries,    \* self.entries
    dirty,      \* self.dirty
    raised,     \* the exception the last call raised, "" when it returned
    mutated     \* history: a caller-invoked insert or delete has completed

vars == <<img, spc, c1, out, c2, lists, containers, callerLists,
          data, xpc, offset, entries, dirty, raised, mutated>>

scanVars == <<img, spc, c1, out, c2>>
heapVars == <<lists, containers, callerLists>>
exifVars == <<data, xpc, offset, entries, dirty, raised, mutated>>

(***************************************************************************)
(* Bounds of the model.                                                    *)
(***************************************************************************)
\* the bytes that follow the signature FF D8 FF in a scanned buffer
MaxTail == 7
\* the list objects on the heap, the containers, and the segments of a list
MaxLists == 3
MaxContainers == 2
MaxLen == 1
\* the segments of each of the two lists whose fingerprints are compared
MaxFpLen == 2
\* the entries of a directory of a generated Exif block
MaxEntries == 1

(***************************************************************************)
(* JPEG marker codes (jfif.py lines 15-41).                                *)
(***************************************************************************)
SOF_0 == 192
SOF_3 == 195
SOI == 216
EOI == 217
SOS == 218
APP_0 == 224
APP_15 == 239
COM == 254

(***************************************************************************)
(* Python's sequence primitives.                                           *)
(***************************************************************************)
Min(S) == CHOOSE x \in S : \A y \in S : x <= y

\* s[p], for 0 <= p < len(s)
At(s, p) == s[p + 1]

\* the index Python's slice arithmetic makes of a bound: a negative bound
\* counts from the end, and the result is clamped to 0..len(s)
PyClamp(s, a) ==
    LET n == Len(s)
        b == IF a < 0 THEN a + n ELSE a
    IN  IF b < 0 THEN 0 ELSE IF b > n THEN n ELSE b

\* s[a:b]
PySlice(s, a, b) ==
    LET lo == PyClamp(s, a)
        hi == PyClamp(s, b)
    IN  IF hi <= lo THEN << >> ELSE SubSeq(s, lo + 1, hi)

(***************************************************************************)
(* JFIF.__init__, the scan (jfif.py lines 80-103).                         *)
(*                                                                         *)
(* A scan state is [err, i, segs]: err is set when an index runs off the   *)
(* buffer (Python raises IndexError and no container is made).             *)
(***************************************************************************)
ScanFail(i, segs) == [err |-> TRUE, i |-> i, segs |-> segs]
ScanGo(i, segs) == [err |-> FALSE, i |-> i, segs |-> segs]

\* lines 90-98: the positions j at which the SOS search would stop
SosStops(b, i) ==
    {j \in (i + 1)..(Len(b) - 2) :
        /\ At(b, j) = 255
        /\ At(b, j + 1) # 0
        /\ ~(At(b, j + 1) >= 208 /\ At(b, j + 1) <= 215)}

\* lines 89-98, with i the position of the DA byte
ScanSos(b, i, segs) ==
    IF SosStops(b, i) # {}
    THEN LET j == Min(SosStops(b, i))
         IN  ScanGo(j, Append(segs, <<SOS, PySlice(b, i + 1, j)>>))
    ELSE IF i + 1 < Len(b)
         THEN ScanFail(i, segs)          \* img[j+1] at j = imglen-1
         ELSE ScanGo(i + 1, segs)        \* the search loop never runs

\* lines 100-102, with i the position of the marker byte
ScanLengthPrefixed(b, i, segs) ==
    IF i + 2 >= Len(b)
    THEN ScanFail(i, segs)               \* img[i+1] or img[i+2]
    ELSE LET ln == (At(b, i + 1) * 256) + At(b, i + 2)
         IN  ScanGo(i + ln + 1,
                    Append(segs, <<At(b, i), PySlice(b, i + 3, i + 1 + ln)>>))

\* lines 83-103: one turn of the while loop, from i < imglen
ScanStep(b, i, segs) ==
    IF At(b, i) # 255
    THEN ScanGo(i + 1, segs)
    ELSE IF i + 1 >= Len(b)
         THEN ScanFail(i, segs)          \* img[i] after i += 1
         ELSE LET m == At(b, i + 1)
              IN  IF m = 1 \/ (m >= 208 /\ m <= 217)
                  THEN ScanGo(i + 2, segs)
                  ELSE IF m = SOS
                       THEN ScanSos(b, i + 1, segs)
                       ELSE ScanLengthPrefixed(b, i + 1, segs)

RECURSIVE ScanFrom(_, _, _)
\* lines 82-103: the while loop
ScanFrom(b, i, segs) ==
    IF i >= Len(b)
    THEN ScanGo(i, segs)
    ELSE LET s == ScanStep(b, i, segs)
         IN  IF s.err THEN s ELSE ScanFrom(b, s.i, s.segs)

\* lines 80-103
Scan(b) == ScanFrom(b, 0, << >>)

(***************************************************************************)
(* JFIF.getBytes (jfif.py lines 110-126).                                  *)
(***************************************************************************)
\* a slip at line 122: the length without the two bytes of the field itself
LengthFieldOfPayloadOnly(payload) == Len(payload)

\* line 122: the length that is written counts its own two bytes (chr() at
\* lines 123-124 takes it up to 65535; the payloads here are far shorter)
LengthField(payload) == Len(payload) + 2

\* lines 117-125: what one segment adds
SegmentBytes(s) ==
    IF s[1] = SOS
    THEN <<255, SOS>> \o s[2]
    ELSE LET ln == LengthField(s[2])
         IN  <<255, s[1], ln \div 256, ln % 256>> \o s[2]

RECURSIVE SegmentsBytes(_)
SegmentsBytes(segs) ==
    IF segs = << >> THEN << >>
    ELSE SegmentBytes(Head(segs)) \o SegmentsBytes(Tail(segs))

getBytes(segs) == <<255, SOI>> \o SegmentsBytes(segs) \o <<255, EOI>>

(***************************************************************************)
(* JFIF.getByteSize (jfif.py lines 129-143).                               *)
(***************************************************************************)
RECURSIVE CountSegments(_)
\* lines 138-142
CountSegments(segs) ==
    IF segs = << >> THEN 0
    ELSE (IF Head(segs)[1] = SOS THEN 2 ELSE 4) + Len(Head(segs)[2])
            + CountSegments(Tail(segs))

getByteSize(segs) ==
    IF segs = << >> THEN 0 ELSE 4 + CountSegments(segs)

(***************************************************************************)
(* JFIF.getMD5 (jfif.py lines 146-163).  The digest is kept abstract: it   *)
(* is a one-to-one function of the bytes fed to it.                        *)
(***************************************************************************)
\* a slip at lines 157-158: comments are not left out
SkippedByMD5ApplicationOnly(s) == s[1] >= APP_0 /\ s[1] <= APP_15

\* lines 157-160: the segments that are left out
SkippedByMD5(s) == s[1] = COM \/ (s[1] >= APP_0 /\ s[1] <= APP_15)

RECURSIVE MD5Stream(_)
\* lines 156-162: the bytes handed to h.update, in order
MD5Stream(segs) ==
    IF segs = << >> THEN << >>
    ELSE (IF SkippedByMD5(Head(segs)) THEN << >>
          ELSE <<Head(segs)[1]>> \o Head(segs)[2])
            \o MD5Stream(Tail(segs))

getMD5(segs) == [md5 |-> MD5Stream(segs)]

(***************************************************************************)
(* JFIF.getSize (jfif.py lines 180-187).                                   *)
(***************************************************************************)
IsSOF(s) == s[1] >= SOF_0 /\ s[1] <= SOF_3

\* line 187, for the first SOF segment s
SizeOf(s) ==
    IF Len(s[2]) < 5
    THEN [kind |-> "IndexError"]
    ELSE [kind |-> "value",
          width |-> (At(s[2], 3) * 256) + At(s[2], 4),
          height |-> (At(s[2], 1) * 256) + At(s[2], 2)]

\* lines 185-187; the loop that finds nothing falls off the end of the
\* function, and the caller gets None
getSize(segs) ==
    IF \E k \in 1..Len(segs) : IsSOF(segs[k])
    THEN SizeOf(segs[Min({k \in 1..Len(segs) : IsSOF(segs[k])})])
    ELSE [kind |-> "None"]

(***************************************************************************)
(* The heap: JFIF.__init__ from a list or a container (lines 67-72) and    *)
(* JFIF.getSegments (line 177) each make a new list object.                *)
(***************************************************************************)
\* a slip at line 68: self._segments = data, the caller's own list object
InitFromListNoCopy(h, l) == [lists |-> h, ref |-> l]

\* line 68: self._segments = data[:]
InitFromList(h, l) == [lists |-> Append(h, h[l]), ref |-> Len(h) + 1]

\* line 71: self._segments = data._segments[:], for the list ref of data
InitFromContainer(h, ref) == [lists |-> Append(h, h[ref]), ref |-> Len(h) + 1]

\* lines 57, 80-103: self._segments = [] and the segments appended to it
InitFromBytes(h, b) == [lists |-> Append(h, Scan(b).segs), ref |-> Len(h) + 1]

\* line 177: return self._segments[:]
getSegments(h, ref) == [lists |-> Append(h, h[ref]), ref |-> Len(h) + 1]

\* the segment list of container c
Segs(c) == lists[containers[c].segs]

(***************************************************************************)
(* exif.py: the static tables (lines 12-92).                               *)
(***************************************************************************)
tags_by_id ==
    254 :> "NewSubfileType" @@ 255 :> "SubfileType"
    @@ 256 :> "ImageWidth" @@ 257 :> "ImageLength"
    @@ 258 :> "BitsPerSample" @@ 259 :> "Compression"
    @@ 262 :> "PhotometricInterpretation" @@ 263 :> "Threshholding"
    @@ 264 :> "CellWidth" @@ 265 :> "CellLength"
    @@ 266 :> "FillOrder" @@ 269 :> "DocumentName"
    @@ 270 :> "ImageDescription" @@ 271 :> "Make"
    @@ 272 :> "Model" @@ 273 :> "StripOffsets"
    @@ 274 :> "Orientation" @@ 277 :> "SamplesPerPixel"
    @@ 278 :> "RowsPerStrip" @@ 279 :> "StripByteCounts"
    @@ 280 :> "MinSampleValue" @@ 281 :> "MaxSampleValue"
    @@ 282 :> "XResolution" @@ 283 :> "YResolution"
    @@ 284 :> "PlanarConfiguration" @@ 285 :> "PageName"
    @@ 286 :> "XPosition" @@ 287 :> "YPosition"
    @@ 288 :> "FreeOffsets" @@ 289 :> "FreeByteCounts"
    @@ 290 :> "GrayResponseUnit" @@ 291 :> "GrayResponseCurve"
    @@ 292 :> "T4Options" @@ 293 :> "T6Options"
    @@ 296 :> "ResolutionUnit" @@ 297 :> "PageNumber"
    @@ 301 :> "TransferFunction" @@ 305 :> "Software"
    @@ 306 :> "DateTime" @@ 315 :> "Artist"
    @@ 316 :> "HostComputer" @@ 317 :> "Predictor"
    @@ 318 :> "WhitePoint" @@ 319 :> "PrimaryChromaticities"
    @@ 320 :> "ColorMap" @@ 321 :> "HalftoneHints"
    @@ 322 :> "TileWidth" @@ 323 :> "TileLength"
    @@ 324 :> "TileOffsets" @@ 325 :> "TileByteCounts"
    @@ 332 :> "InkSet" @@ 333 :> "InkNames"
    @@ 334 :> "NumberOfInks" @@ 336 :> "DotRange"
    @@ 337 :> "TargetPrinter" @@ 338 :> "ExtraSamples"
    @@ 339 :> "SampleFormat" @@ 340 :> "SMinSampleValue"
    @@ 341 :> "SMaxSampleValue" @@ 342 :> "TransferRange"
    @@ 512 :> "JPEGProc" @@ 513 :> "JPEGInterchangeFormat"
    @@ 514 :> "JPEGInterchangeFormatLngth" @@ 515 :> "JPEGRestartInterval"
    @@ 517 :> "JPEGLosslessPredictors" @@ 518 :> "JPEGPointTransforms"
    @@ 519 :> "JPEGQTables" @@ 520 :> "JPEGDCTables"
    @@ 521 :> "JPEGACTables" @@ 529 :> "YCbCrCoefficients"
    @@ 530 :> "YCbCrSubSampling" @@ 531 :> "YCbCrPositioning"
    @@ 532 :> "ReferenceBlackWhite" @@ 33432 :> "Copyright"

\* lines 90-92: the reverse map, from a name to its id
TagNames == {tags_by_id[i] : i \in DOMAIN tags_by_id}
tags_by_name == [nm \in TagNames |-> CHOOSE i \in DOMAIN tags_by_id : tags_by_id[i] = nm]

(***************************************************************************)
(* Python values.  A dictionary key is an integer or a string, and so is   *)
(* an entry's value; both are kept as records of one shape.                *)
(***************************************************************************)
IntKey(n) == [t |-> "int", n |-> n, s |-> ""]
StrKey(s) == [t |-> "str", n |-> 0, s |-> s]
IntVal(n) == [t |-> "int", n |-> n, s |-> << >>]
StrVal(s) == [t |-> "str", n |-> 0, s |-> s]

\* None, where a name is expected
PyNone == "<None>"

\* {}
EmptyDict == [k \in {} |-> 0]

\* d[k] = v, and del d[k]
DictPut(d, k, v) == [j \in DOMAIN d \cup {k} |-> IF j = k THEN v ELSE d[j]]
DictDel(d, k) == [j \in DOMAIN d \ {k} |-> d[j]]

(***************************************************************************)
(* struct.unpack in native (little-endian) byte order: "h" and "i" are     *)
(* signed, "I" is unsigned; a string of the wrong length is struct.error.  *)
(***************************************************************************)
LittleEndian(bs) ==
    IF Len(bs) = 2 THEN bs[1] + (256 * bs[2])
    ELSE bs[1] + (256 * bs[2]) + (65536 * bs[3]) + (16777216 * bs[4])

\* "h": a signed 16-bit integer
Unpack_h(bs) ==
    LET u == LittleEndian(bs) IN IF u >= 32768 THEN u - 65536 ELSE u

\* "i": a signed 32-bit integer (the top byte carries the sign)
Unpack_i(bs) ==
    bs[1] + (256 * bs[2]) + (65536 * bs[3])
        + (16777216 * (IF bs[4] >= 128 THEN bs[4] - 256 ELSE bs[4]))

\* "I": an unsigned 32-bit integer (TLC's integers stop short of 2^31, and
\* it reports an overflow for a value from there on)
Unpack_I(bs) == LittleEndian(bs)

(***************************************************************************)
(* _normalize_key (exif.py lines 95-98).                                   *)
(***************************************************************************)
_normalize_key(key) ==
    IF key.t = "str"
    THEN IF key.s \in DOMAIN tags_by_name THEN IntKey(tags_by_name[key.s]) ELSE key
    ELSE key

(***************************************************************************)
(* IFDEntry.__init__ (exif.py lines 128-132).                              *)
(***************************************************************************)
IFDEntry(tag_id, value, typ) ==
    [typ |-> typ, id |-> tag_id, value |-> value,
     name |-> IF tag_id \in DOMAIN tags_by_id THEN tags_by_id[tag_id] ELSE PyNone]

(***************************************************************************)
(* _decode_tiff_value (exif.py lines 102-123): [err, entry].               *)
(***************************************************************************)
DecodeFail == [err |-> TRUE, entry |-> IFDEntry(0, IntVal(0), 0)]
Decoded(e) == [err |-> FALSE, entry |-> e]

\* lines 118-120
DecodeRational(d, tag, val_off) ==
    LET c == PySlice(d, val_off, val_off + 8)
    IN  IF Len(c) # 8 THEN DecodeFail                        \* struct.error
        ELSE LET num == Unpack_I(SubSeq(c, 1, 4))
                 dem == Unpack_I(SubSeq(c, 5, 8))
             IN  IF dem = 0 THEN DecodeFail                  \* ZeroDivisionError
                 ELSE Decoded(IFDEntry(tag, IntVal(num \div dem), 5))

_decode_tiff_value(d, off) ==
    LET chunk == PySlice(d, off, off + 12)
    IN  IF Len(chunk) # 12 THEN DecodeFail                   \* line 105
        ELSE LET tag == Unpack_h(SubSeq(chunk, 1, 2))
                 typ == Unpack_h(SubSeq(chunk, 3, 4))
                 num_vals == Unpack_i(SubSeq(chunk, 5, 8))
                 val_off == Unpack_i(SubSeq(chunk, 9, 12))
             IN  IF typ \in {1, 3, 4}
                 THEN Decoded(IFDEntry(tag, IntVal(val_off), typ))
                 ELSE IF typ = 2
                 THEN Decoded(IFDEntry(tag,
                        StrVal(PySlice(d, val_off, val_off + num_vals - 1)), typ))
                 ELSE IF typ = 5
                 THEN DecodeRational(d, tag, val_off)
                 ELSE DecodeFail                             \* line 122

(***************************************************************************)
(* Exif.__getitem__, __setitem__, __delitem__ (exif.py lines 183-196), on  *)
(* a table [entries, dirty].                                               *)
(***************************************************************************)
\* lines 183-185
GetItem(e, key) ==
    IF _normalize_key(key) \in DOMAIN e
    THEN [kind |-> "entry", entry |-> e[_normalize_key(key)]]
    ELSE [kind |-> "KeyError", entry |-> IFDEntry(0, IntVal(0), 0)]

\* lines 189-191, for an item that is an IFDEntry
SetItem(tab, key, item) ==
    [entries |-> DictPut(tab.entries, _normalize_key(key), item), dirty |-> 1]

\* lines 194-196, for a key that is there
DelItem(tab, key) ==
    [entries |-> DictDel(tab.entries, _normalize_key(key)), dirty |-> 1]

(***************************************************************************)
(* Exif.__init__ (exif.py lines 143-172).                                  *)
(***************************************************************************)
\* lines 156-160: the signature and the magic number
HeaderOk(d) ==
    /\ Len(d) >= 2 /\ d[1] = 73 /\ d[2] = 73
    /\ Len(PySlice(d, 0, 4)) = 4
    /\ Unpack_h(SubSeq(d, 3, 4)) = 42

\* a slip at line 163: only the offset at the fixed position is followed
ReadOffsetFirstOnly(d, off) ==
    IF off = 4 /\ Len(PySlice(d, off, off + 4)) = 4
    THEN [err |-> FALSE, v |-> Unpack_i(PySlice(d, off, off + 4))]
    ELSE [err |-> off = 4, v |-> 0]

\* line 163: offset, = struct.unpack("i", data[offset:offset+4])
ReadOffset(d, off) ==
    IF Len(PySlice(d, off, off + 4)) # 4
    THEN [err |-> TRUE, v |-> 0]
    ELSE [err |-> FALSE, v |-> Unpack_i(PySlice(d, off, off + 4))]

\* line 166: num_entries, = struct.unpack("h", data[offset:offset+2])
ReadCount(d, off) ==
    IF Len(PySlice(d, off, off + 2)) # 2
    THEN [err |-> TRUE, v |-> 0]
    ELSE [err |-> FALSE, v |-> Unpack_h(PySlice(d, off, off + 2))]

RECURSIVE ReadEntries(_, _, _, _)
\* lines 169-172: the n entries still to read, from off, into table tab
ReadEntries(d, off, n, tab) ==
    IF n <= 0 THEN [err |-> FALSE, offset |-> off, tab |-> tab]
    ELSE LET r == _decode_tiff_value(d, off)
         IN  IF r.err THEN [err |-> TRUE, offset |-> off, tab |-> tab]
             ELSE ReadEntries(d, off + 12, n - 1,
                              SetItem(tab, IntKey(r.entry.id), r.entry))

(***************************************************************************)
(* The scanning script: c1 = JFIF(img); out = c1.getBytes(); c2 = JFIF(out)*)
(***************************************************************************)
\* the bytes a scanned buffer is drawn from: stuffing, a length, EOI, SOS, FF
ScanBytes == {0, 3, EOI, SOS, 255}

\* jfif.py line 63: a string that starts with FF D8 FF is the image itself
Signature == <<255, SOI, 255>>

Buffers ==
    {Signature \o t : t \in UNION {[1..n -> ScanBytes] : n \in 0..MaxTail}}

InitScan ==
    /\ img \in Buffers
    /\ spc = "start"
    /\ c1 = << >>
    /\ out = << >>
    /\ c2 = << >>
    /\ lists = << >>
    /\ containers = << >>
    /\ callerLists = {}
    /\ data = << >>
    /\ xpc = "idle"
    /\ offset = 0
    /\ entries = EmptyDict
    /\ dirty = 0
    /\ raised = ""
    /\ mutated = FALSE

\* c1 = JFIF(img): lines 56-103, a buffer that passes line 63
Construct ==
    /\ spc = "start"
    /\ LET r == Scan(img)
       IN  IF r.err
           THEN spc' = "failed" /\ c1' = c1
           ELSE spc' = "built" /\ c1' = r.segs
    /\ UNCHANGED <<img, out, c2>>
    /\ UNCHANGED <<heapVars, exifVars>>

\* out = c1.getBytes(): lines 110-126
Rebuild ==
    /\ spc = "built"
    /\ out' = getBytes(c1)
    /\ spc' = "rebuilt"
    /\ UNCHANGED <<img, c1, c2>>
    /\ UNCHANGED <<heapVars, exifVars>>

\* c2 = JFIF(out): lines 56-103 again (out starts with FF D8 FF)
Reconstruct ==
    /\ spc = "rebuilt"
    /\ LET r == Scan(out)
       IN  IF r.err
           THEN spc' = "refailed" /\ c2' = c2
           ELSE spc' = "rescanned" /\ c2' = r.segs
    /\ UNCHANGED <<img, c1, out>>
    /\ UNCHANGED <<heapVars, exifVars>>

NextScan == Construct \/ Rebuild \/ Reconstruct

SpecScan == InitScan /\ [][NextScan]_vars

(***************************************************************************)
(* C2: the round trip of a scanned buffer.                                 *)
(***************************************************************************)
\* an SOS segment directly followed by a segment whose marker is 0x00
SosThenZero(segs) ==
    \E k \in 1..(Len(segs) - 1) : segs[k][1] = SOS /\ segs[k + 1][1] = 0

\* C2 as stated: for every buffer that starts with FF D8 FF and scans without
\* error, scanning getBytes() of its container gives the same segment list.
C2_RoundTripAnyBuffer ==
    spc \in {"rescanned", "refailed"} => (spc = "rescanned" /\ c2 = c1)

\* C2 amended: the same, for the buffers whose segment list has no SOS segment
\* directly followed by a segment with marker 0x00 (rebuilt, that marker reads
\* FF 00, which the SOS search takes for byte stuffing).
C2_RoundTripNoZeroAfterSos ==
    (spc \in {"rescanned", "refailed"} /\ ~SosThenZero(c1))
        => (spc = "rescanned" /\ c2 = c1)

\* C2 witness: a buffer with an SOS segment that has a payload and a
\* length-prefixed segment that has one comes back the same.
C2_Witness ==
    /\ spc = "rescanned"
    /\ c2 = c1
    /\ \E k \in 1..Len(c1) : c1[k][1] = SOS /\ Len(c1[k][2]) > 0
    /\ \E k \in 1..Len(c1) : c1[k][1] # SOS /\ Len(c1[k][2]) > 0

(***************************************************************************)
(* C5: buffers that end too early.                                         *)
(***************************************************************************)
\* the first segment is length-prefixed and declares more payload than is left
FirstSegmentOverruns(b) ==
    /\ Len(b) >= 6
    /\ b[4] # 1 /\ ~(b[4] >= 208 /\ b[4] <= 218)
    /\ (b[5] * 256) + b[6] - 2 > Len(b) - 6

\* the first segment is SOS and no terminating marker follows it
FirstSosUnterminated(b) ==
    /\ Len(b) >= 4
    /\ b[4] = SOS
    /\ ~\E k \in 5..(Len(b) - 1) :
            b[k] = 255 /\ b[k + 1] # 0 /\ ~(b[k + 1] >= 208 /\ b[k + 1] <= 215)

\* C5 as stated, for the segment that follows the signature: when it declares
\* a length that runs past the end of the buffer, or is an SOS with no
\* terminating marker, construction fails and no container is produced.
C5_TruncatedBufferFails ==
    (spc # "start" /\ (FirstSegmentOverruns(img) \/ FirstSosUnterminated(img)))
        => spc = "failed"

(***************************************************************************)
(* Containers, the lists they are built from and the lists they hand out.  *)
(* A container is [segs, src]: the list object its _segments names, and    *)
(* the constructor argument it was built from.                             *)
(***************************************************************************)
\* the segments the caller puts into lists: a scan and a frame
HeapSegs == {<<SOS, <<7>>>>, <<SOF_0, <<8, 0, 100, 0, 200>>>>}

\* the buffers the caller scans: an image of no segment, and one of a scan
HeapBuffers == {Signature \o <<EOI>>, Signature \o <<SOS, 7, 255, EOI>>}

Init ==
    /\ lists = << >>
    /\ containers = << >>
    /\ callerLists = {}
    /\ img = << >>
    /\ spc = "idle"
    /\ c1 = << >>
    /\ out = << >>
    /\ c2 = << >>
    /\ data = << >>
    /\ xpc = "idle"
    /\ offset = 0
    /\ entries = EmptyDict
    /\ dirty = 0
    /\ raised = ""
    /\ mutated = FALSE

\* the caller makes a list: []
CallerNewList ==
    /\ lists' = Append(lists, << >>)
    /\ callerLists' = callerLists \cup {Len(lists) + 1}
    /\ UNCHANGED containers
    /\ UNCHANGED <<scanVars, exifVars>>

\* JFIF(b), b a buffer: lines 56-64, 80-103
NewFromBytes(b) ==
    /\ ~Scan(b).err                  \* a scan that fails makes no container
    /\ LET r == InitFromBytes(lists, b)
       IN  /\ lists' = r.lists
           /\ containers' =
                Append(containers, [segs |-> r.ref, src |-> [kind |-> "bytes", of |-> 0]])
    /\ UNCHANGED callerLists
    /\ UNCHANGED <<scanVars, exifVars>>

\* JFIF(l), l a list: lines 56-57, 67-69
NewFromList(l) ==
    /\ LET r == InitFromList(lists, l)
       IN  /\ lists' = r.lists
           /\ containers' =
                Append(containers, [segs |-> r.ref, src |-> [kind |-> "list", of |-> l]])
    /\ UNCHANGED callerLists
    /\ UNCHANGED <<scanVars, exifVars>>

\* JFIF(d), d a container: lines 56-57, 70-72
NewFromContainer(d) ==
    /\ LET r == InitFromContainer(lists, containers[d].segs)
       IN  /\ lists' = r.lists
           /\ containers' =
                Append(containers, [segs |-> r.ref, src |-> [kind |-> "jfif", of |-> d]])
    /\ UNCHANGED callerLists
    /\ UNCHANGED <<scanVars, exifVars>>

\* c.getSegments(): lines 166-177; the caller keeps the list it gets
GetSegments(c) ==
    /\ LET r == getSegments(lists, containers[c].segs)
       IN  /\ lists' = r.lists
           /\ callerLists' = callerLists \cup {r.ref}
    /\ UNCHANGED containers
    /\ UNCHANGED <<scanVars, exifVars>>

\* Python's list operations on the list object l, in place
ListAppend(l, s) ==
    /\ Len(lists[l]) < MaxLen
    /\ lists' = [lists EXCEPT ![l] = Append(@, s)]

ListRemove(l, k) ==
    lists' = [lists EXCEPT ![l] = SubSeq(@, 1, k - 1) \o SubSeq(@, k + 1, Len(@))]

ListReplace(l, k, s) ==
    /\ lists[l][k] # s
    /\ lists' = [lists EXCEPT ![l] = [@ EXCEPT ![k] = s]]

Mutate(l) ==
    \/ \E s \in HeapSegs : ListAppend(l, s)
    \/ \E k \in 1..Len(lists[l]) : ListRemove(l, k)
    \/ \E k \in 1..Len(lists[l]) : \E s \in HeapSegs : ListReplace(l, k, s)

\* the caller changes a list it holds: one it made, one it gave to JFIF(l),
\* one that getSegments() returned
CallerMutates(l) ==
    /\ Mutate(l)
    /\ UNCHANGED <<containers, callerLists>>
    /\ UNCHANGED <<scanVars, exifVars>>

\* the segment list of container d is changed in place, through d
OwnerMutates(d) ==
    /\ Mutate(containers[d].segs)
    /\ UNCHANGED <<containers, callerLists>>
    /\ UNCHANGED <<scanVars, exifVars>>

\* the model's room for one more list object, and for one more container
Room == Len(lists) < MaxLists
Vacancy == Len(containers) < MaxContainers

Next ==
    \/ Room /\ CallerNewList
    \/ \E b \in HeapBuffers : Room /\ Vacancy /\ NewFromBytes(b)
    \/ \E l \in callerLists : Room /\ Vacancy /\ NewFromList(l)
    \/ \E d \in 1..Len(containers) : Room /\ Vacancy /\ NewFromContainer(d)
    \/ \E c \in 1..Len(containers) : Room /\ GetSegments(c)
    \/ \E l \in callerLists : CallerMutates(l)
    \/ \E d \in 1..Len(containers) : OwnerMutates(d)

Spec == Init /\ [][Next]_vars

(***************************************************************************)
(* C1: the size that is announced and the size that is written.            *)
(***************************************************************************)
\* C1 as stated: for every container, however it was made, getByteSize()
\* is the length of getBytes().
C1_ByteSizeIsLengthOfBytes ==
    \A c \in 1..Len(containers) : getByteSize(Segs(c)) = Len(getBytes(Segs(c)))

(***************************************************************************)
(* C3: a container's list is its own.                                      *)
(***************************************************************************)
\* what the caller can see of container c
View(c) == <<Segs(c), getBytes(Segs(c)), getByteSize(Segs(c))>>

\* C3: a step that changes, in place, a list the caller holds (one it
\* supplied to a constructor, one getSegments() returned) or the segment list
\* of another container (the one a container was copied from among them)
\* leaves what getSegments(), getBytes() and getByteSize() give for the
\* container as it was.
C3_ExternalMutationLeavesContainer ==
    [][\A c \in 1..Len(containers) :
          (\/ \E l \in callerLists : CallerMutates(l)
           \/ \E d \in (1..Len(containers)) \ {c} : OwnerMutates(d))
             => View(c)' = View(c)]_vars

\* C3 witness: a container built from a list, one copied from that container
\* and a list the first handed out, all three with other contents than the
\* first container has.
C3_Witness ==
    \E c \in 1..Len(containers) :
        /\ containers[c].src.kind = "list"
        /\ lists[containers[c].src.of] # Segs(c)
        /\ Segs(c) # << >>
        /\ \E d \in 1..Len(containers) :
              /\ containers[d].src = [kind |-> "jfif", of |-> c]
              /\ Segs(d) # Segs(c)

(***************************************************************************)
(* C6: the size of an image that has no frame.                             *)
(***************************************************************************)
\* C6 as stated: a container with no segment whose marker is in 0xC0-0xC3
\* gets an error from getDimensions(), and no value.
C6_NoFrameFails ==
    \A c \in 1..Len(containers) :
        (~\E k \in 1..Len(Segs(c)) : IsSOF(Segs(c)[k]))
            => getSize(Segs(c)).kind \notin {"value", "None"}

(***************************************************************************)
(* The fingerprints of two containers built from two lists.                *)
(***************************************************************************)
\* a comment, the last application marker and a quantization table (0xDB),
\* each with no payload and with a payload of one byte
FpSegs == {<<m, p>> : m \in {COM, APP_15, 219}, p \in {<< >>, <<219>>}}

FpLists == UNION {[1..n -> FpSegs] : n \in 0..MaxFpLen}

InitFp ==
    /\ \E la \in FpLists, lb \in FpLists : lists = <<la, lb>>
    /\ containers = << >>
    /\ callerLists = {1, 2}
    /\ img = << >>
    /\ spc = "idle"
    /\ c1 = << >>
    /\ out = << >>
    /\ c2 = << >>
    /\ data = << >>
    /\ xpc = "idle"
    /\ offset = 0
    /\ entries = EmptyDict
    /\ dirty = 0
    /\ raised = ""
    /\ mutated = FALSE

\* each of the two lists is handed to JFIF(l) once
NextFp ==
    \E l \in callerLists :
        /\ \A c \in 1..Len(containers) : containers[c].src.of # l
        /\ NewFromList(l)

SpecFp == InitFp /\ [][NextFp]_vars

\* two segment lists of one length, with the same marker at each place
SameMarkers(A, B) ==
    Len(A) = Len(B) /\ \A k \in 1..Len(A) : A[k][1] = B[k][1]

\* the places where the payloads differ, in a comment or application segment
SkippedDiffs(A, B) ==
    {k \in 1..Len(A) : A[k] # B[k] /\ (A[k][1] = COM \/ A[k][1] \in APP_0..APP_15)}

\* C4: of two containers with the same markers place by place, the
\* fingerprints are equal when the payloads differ in comment and application
\* segments only, and are not equal when, besides, the payload of exactly one
\* segment with another marker differs.
C4_FingerprintIgnoresMetadataOnly ==
    \A a \in 1..Len(containers) : \A b \in 1..Len(containers) :
        SameMarkers(Segs(a), Segs(b)) =>
            LET other == {k \in 1..Len(Segs(a)) : Segs(a)[k] # Segs(b)[k]}
                            \ SkippedDiffs(Segs(a), Segs(b))
            IN  /\ other = {} => getMD5(Segs(a)) = getMD5(Segs(b))
                /\ Cardinality(other) = 1 => getMD5(Segs(a)) # getMD5(Segs(b))

\* C4 witness: two containers that differ in a comment's payload and have one
\* fingerprint, of a stream that is not empty.
C4_Witness ==
    \E a \in 1..Len(containers) : \E b \in 1..Len(containers) :
        /\ SameMarkers(Segs(a), Segs(b))
        /\ \E k \in 1..Len(Segs(a)) : Segs(a)[k][1] = COM /\ Segs(a)[k] # Segs(b)[k]
        /\ \A k \in 1..Len(Segs(a)) : Segs(a)[k] # Segs(b)[k] => Segs(a)[k][1] = COM
        /\ getMD5(Segs(a)) = getMD5(Segs(b))
        /\ getMD5(Segs(a)).md5 # << >>

(***************************************************************************)
(* Exif blocks: the signature "II", the magic number, the offset of the    *)
(* first directory; then the text "ACME\0" (at 8) and the rational 1/2 (at *)
(* 13); then one or two directories (at 21 and after), each a count, its   *)
(* entries and the offset of the next directory.                           *)
(***************************************************************************)
LE16(v) == <<v % 256, v \div 256>>
LE32(v) == <<v % 256, (v \div 256) % 256, (v \div 65536) % 256, v \div 16777216>>

EntryBytes(e) == LE16(e.tag) \o LE16(e.typ) \o LE32(e.count) \o LE32(e.val)

RECURSIVE EntriesBytes(_)
EntriesBytes(es) ==
    IF es = << >> THEN << >> ELSE EntryBytes(Head(es)) \o EntriesBytes(Tail(es))

DirBytes(es, next) == LE16(Len(es)) \o EntriesBytes(es) \o LE32(next)

HeaderBytes(first) == <<73, 73>> \o LE16(42) \o LE32(first)
PoolBytes == <<65, 67, 77, 69, 0>> \o LE32(1) \o LE32(2)

\* Make = "ACME", Copyright (33432 = 0x8298) as a short, XResolution = 1/2,
\* an id the table does not name, and a type that is not supported
EntryKinds ==
    {[tag |-> 271, typ |-> 2, count |-> 5, val |-> 8],
     [tag |-> 33432, typ |-> 3, count |-> 1, val |-> 7],
     [tag |-> 282, typ |-> 5, count |-> 1, val |-> 13],
     [tag |-> 1, typ |-> 4, count |-> 1, val |-> 9],
     [tag |-> 272, typ |-> 7, count |-> 1, val |-> 0]}

DirEntries == UNION {[1..n -> EntryKinds] : n \in 0..MaxEntries}

\* the first directory follows the header and the pool
Dir1 == Len(HeaderBytes(0)) + Len(PoolBytes)
Dir2(es1) == Dir1 + 2 + (12 * Len(es1)) + 4

\* a block of one directory, and a block of two
OneDirBlocks ==
    {HeaderBytes(first) \o PoolBytes \o DirBytes(es1, next1) :
        first \in {0, Dir1}, es1 \in DirEntries, next1 \in {0, Dir1, 4}}

TwoDirBlocks ==
    UNION {{HeaderBytes(Dir1) \o PoolBytes \o DirBytes(es1, Dir2(es1)) \o DirBytes(es2, next2) :
                es2 \in DirEntries, next2 \in {0, Dir1, Dir2(es1)}} :
           es1 \in DirEntries}

\* no block, a block cut short, the other byte order, a wrong magic number
OtherBlocks ==
    {<< >>, <<73>>, <<73, 73, 42>>, <<77, 77, 0, 42, 0, 0, 0, 8>>,
     <<73, 73, 43, 0, 0, 0, 0, 0>>, HeaderBytes(Dir1) \o PoolBytes}

ExifBlocks == OneDirBlocks \cup TwoDirBlocks \cup OtherBlocks

\* what the caller inserts and under which keys it inserts and deletes
CallerKeys == {IntKey(271), StrKey("Make"), StrKey("Custom")}
CallerItems == {IFDEntry(271, IntVal(1), 3)}

InitExif ==
    /\ data \in ExifBlocks
    /\ xpc = "new"
    /\ offset = 0
    /\ entries = EmptyDict
    /\ dirty = 0
    /\ raised = ""
    /\ mutated = FALSE
    /\ img = << >>
    /\ spc = "idle"
    /\ c1 = << >>
    /\ out = << >>
    /\ c2 = << >>
    /\ lists = << >>
    /\ containers = << >>
    /\ callerLists = {}

\* Exif(data), lines 149-161: up to the loop
ExifStart ==
    /\ xpc = "new"
    /\ entries' = EmptyDict
    /\ dirty' = 0
    /\ IF data = << >>
       THEN xpc' = "returned" /\ offset' = offset /\ raised' = ""
       ELSE IF ~HeaderOk(data)
            THEN xpc' = "failed" /\ offset' = offset /\ raised' = "error"
            ELSE xpc' = "top" /\ offset' = 4 /\ raised' = ""
    /\ UNCHANGED <<data, mutated>>
    /\ UNCHANGED <<scanVars, heapVars>>

\* lines 163-165: the offset of the next directory, and the end of the loop
ExifReadOffset ==
    /\ xpc = "top"
    /\ LET r == ReadOffset(data, offset)
       IN  IF r.err
           THEN xpc' = "failed" /\ offset' = offset /\ raised' = "error"
           ELSE IF r.v = 0
                THEN xpc' = "returned" /\ offset' = 0 /\ raised' = ""
                ELSE xpc' = "dir" /\ offset' = r.v /\ raised' = ""
    /\ UNCHANGED <<data, entries, dirty, mutated>>
    /\ UNCHANGED <<scanVars, heapVars>>

\* lines 166-172: the directory at offset
ExifReadDirectory ==
    /\ xpc = "dir"
    /\ LET c == ReadCount(data, offset)
           r == ReadEntries(data, offset + 2, c.v, [entries |-> entries, dirty |-> dirty])
       IN  IF c.err
           THEN /\ xpc' = "failed" /\ raised' = "error"
                /\ UNCHANGED <<offset, entries, dirty>>
           ELSE /\ offset' = r.offset
                /\ entries' = r.tab.entries
                /\ dirty' = r.tab.dirty
                /\ IF r.err
                   THEN xpc' = "failed" /\ raised' = "error"
                   ELSE xpc' = "top" /\ raised' = ""
    /\ UNCHANGED <<data, mutated>>
    /\ UNCHANGED <<scanVars, heapVars>>

\* table[key] = item, item an IFDEntry: lines 187-191
CallSetItem(key, item) ==
    /\ xpc = "returned"
    /\ LET t == SetItem([entries |-> entries, dirty |-> dirty], key, item)
       IN  entries' = t.entries /\ dirty' = t.dirty
    /\ raised' = ""
    /\ mutated' = TRUE
    /\ UNCHANGED <<data, xpc, offset>>
    /\ UNCHANGED <<scanVars, heapVars>>

\* table[key] = item, item not an IFDEntry: the assertion of line 188 fails
CallSetItemNotEntry(key) ==
    /\ xpc = "returned"
    /\ raised' = "AssertionError"
    /\ UNCHANGED <<data, xpc, offset, entries, dirty, mutated>>
    /\ UNCHANGED <<scanVars, heapVars>>

\* del table[key]: lines 193-196; line 195 raises KeyError for an absent key
CallDelItem(key) ==
    /\ xpc = "returned"
    /\ IF _normalize_key(key) \in DOMAIN entries
       THEN LET t == DelItem([entries |-> entries, dirty |-> dirty], key)
            IN  /\ entries' = t.entries /\ dirty' = t.dirty
                /\ raised' = "" /\ mutated' = TRUE
       ELSE /\ raised' = "KeyError"
            /\ UNCHANGED <<entries, dirty, mutated>>
    /\ UNCHANGED <<data, xpc, offset>>
    /\ UNCHANGED <<scanVars, heapVars>>

ExifConstructs == ExifStart \/ ExifReadOffset \/ ExifReadDirectory

NextExif ==
    \/ ExifStart
    \/ ExifReadOffset
    \/ ExifReadDirectory
    \/ \E key \in CallerKeys : \E item \in CallerItems : CallSetItem(key, item)
    \/ \E key \in CallerKeys : CallSetItemNotEntry(key)
    \/ \E key \in CallerKeys : CallDelItem(key)

SpecExif == InitExif /\ [][NextExif]_vars

\* the constructor is straight-line code that nothing suspends: while it has
\* a step to take, it takes it
FairSpecExif == SpecExif /\ WF_vars(ExifConstructs)

(***************************************************************************)
(* C7: the dirty flag.                                                     *)
(***************************************************************************)
\* C7 as stated: once construction has returned, dirty is set exactly when a
\* caller's insert or delete has completed; it is clear when construction
\* returns, and a call that fails leaves it as it was.
C7_DirtyIffCallerMutated ==
    xpc = "returned" => ((dirty = 1) <=> mutated)

(***************************************************************************)
(* C8: an entry is found under its id and under its name.                  *)
(***************************************************************************)
\* the ids in the tag fields of the first directory, read as unsigned
FirstDirTagFields(d) ==
    LET first == LittleEndian(SubSeq(d, 5, 8))
        n == LittleEndian(SubSeq(d, first + 1, first + 2))
    IN  {LittleEndian(SubSeq(d, first + 3 + (12 * k), first + 4 + (12 * k))) : k \in 0..(n - 1)}

\* C8 as stated: when a valid block holds an entry whose tag field is an id
\* of the static table, the table made from it gives one entry for the id
\* and for the name, with that id and that name.
C8_EntryUnderIdAndName ==
    (xpc = "returned" /\ ~mutated /\ data # << >> /\ LittleEndian(SubSeq(data, 5, 8)) # 0) =>
        \A id \in FirstDirTagFields(data) \cap DOMAIN tags_by_id :
            /\ GetItem(entries, IntKey(id)).kind = "entry"
            /\ GetItem(entries, IntKey(id)) = GetItem(entries, StrKey(tags_by_id[id]))
            /\ GetItem(entries, IntKey(id)).entry.id = id
            /\ GetItem(entries, IntKey(id)).entry.name = tags_by_id[id]

(***************************************************************************)
(* C9: the directories that are read.                                      *)
(***************************************************************************)
\* the 16-bit and the 32-bit field at position p of the block, 0 when the
\* block ends before it
Field16(d, p) == IF p >= 0 /\ p + 2 <= Len(d) THEN Unpack_h(SubSeq(d, p + 1, p + 2)) ELSE 0
Field32(d, p) == IF p >= 0 /\ p + 4 <= Len(d) THEN Unpack_i(SubSeq(d, p + 1, p + 4)) ELSE 0

\* the number of entries of the directory at off
DirCount(d, off) == IF Field16(d, off) < 0 THEN 0 ELSE Field16(d, off)

\* the keys under which the entries of the directory at off are filed
DirKeys(d, off) ==
    {IntKey(Field16(d, off + 2 + (12 * k))) : k \in 0..(DirCount(d, off) - 1)}

\* where the directory at off ends: at the offset of the directory after it
DirEnd(d, off) == off + 2 + (12 * DirCount(d, off))

RECURSIVE Chain(_, _, _)
\* the directories of the chain whose first offset is stored at ptr
Chain(d, ptr, seen) ==
    IF Field32(d, ptr) = 0 \/ Field32(d, ptr) \in seen THEN seen
    ELSE Chain(d, DirEnd(d, Field32(d, ptr)), seen \cup {Field32(d, ptr)})

\* the offset stored at position 4
FirstDir(d) == Field32(d, 4)

ChainKeys(d) == UNION {DirKeys(d, off) : off \in Chain(d, 4, {})}

\* C9 as stated: only the directory named at position 4 is read; the four
\* bytes after a directory's last entry never name a directory that is read,
\* and the table holds no entry of a second directory.
C9_OnlyFirstDirectoryRead ==
    /\ xpc = "dir" => offset = FirstDir(data)
    /\ (xpc = "returned" /\ ~mutated /\ data # << >>)
          => DOMAIN entries \subseteq DirKeys(data, FirstDir(data))

\* C9 amended: the offset at position 4 names the first directory, the four
\* bytes after each directory's last entry name the next one, up to an
\* offset of 0; the table that construction returns holds the entries of
\* every directory of that chain.
C9_ChainOfDirectoriesRead ==
    /\ xpc = "dir" => offset \in Chain(data, 4, {})
    /\ (xpc = "returned" /\ ~mutated /\ data # << >>) => DOMAIN entries = ChainKeys(data)

\* C9 witness: a table returned for a chain of two directories, with an entry
\* that only the second directory holds.
C9_Witness ==
    /\ xpc = "returned" /\ ~mutated /\ data # << >>
    /\ Cardinality(Chain(data, 4, {})) = 2
    /\ \E k \in DOMAIN entries : k \notin DirKeys(data, FirstDir(data))

(***************************************************************************)
(* C10: construction comes to an end.                                      *)
(***************************************************************************)
\* C10 as stated: for every block, construction finishes: it returns a table
\* or it fails.
C10_ConstructionFinishes == <>(xpc \in {"returned", "failed"})

====
